---------------------------- MODULE Spec2Model ----------------------------
(***************************************************************************)
(* A model of the CSS-modules scoping engine (src/src/css_modules.rs) and  *)
(* of the style-sheet lifecycle (src/src/stylesheet.rs).                   *)
(*                                                                         *)
(* Strings are sequences of one-character strings, so that parsing,        *)
(* slicing and concatenation are computed the way the code computes them.  *)
(* A panic (unwrap on None, todo!(), index out of bounds) is an outcome of *)
(* its own: the call does not return and the pass it belongs to is over.   *)
(***************************************************************************)
EXTENDS Integers, Sequences, FiniteSets, TLC

VARIABLES
  \* ---- Pattern::parse / Pattern::write exercised on their own
  template,        \* the template string handed to Pattern::parse
  parsed,          \* the Result of Pattern::parse, or NotRun
  written,         \* the outcome of Pattern::write on the parsed pattern, or NotRun
  \* ---- CssModule, the state of one print pass
  config_pattern,  \* self.config.pattern.segments
  self_hash,       \* self.hash
  exports,         \* self.exports : exported name -> CssModuleExport
  status,          \* "running", or "panicked" once a call has panicked
  calls,           \* number of calls made on the module so far
  pre,             \* history: exports as they were before the last call
  last,            \* history: the last call, what it was given and what it returned
  referenced,      \* history: the names reference() has returned for
  \* ---- hash()
  DefaultHasher,   \* the std hasher: seed -> the 8 bytes of finish(), little endian
  seed,            \* the argument of the last hash() call, or NotRun
  token,           \* what that call returned
  tokens,          \* history: every hash() call so far, as [seed, token]
  \* ---- StyleSheet / StyleAttribute
  sheet,           \* the StyleSheet or StyleAttribute value, or NotRun
  result           \* the outcome of the last minify / to_css call, or NotRun

patVars   == <<template, parsed, written>>
modVars   == <<config_pattern, self_hash, exports, status, calls, pre, last, referenced>>
hashVars  == <<DefaultHasher, seed, token, tokens>>
sheetVars == <<sheet, result>>
vars      == <<patVars, modVars, hashVars, sheetVars>>

NotRun == [kind |-> "NotRun"]

-----------------------------------------------------------------------------
(* Bounds of the model.                                                    *)

MaxPieces    == 3   \* template strings are built from at most this many pieces
MaxCalls     == 3   \* calls made on one CssModule
MaxItems     == 3   \* selectors plus composed names in one handle_composes call
MaxSources   == 2   \* file names handed to StyleSheet::new
MaxHashCalls == 2   \* calls of hash()

-----------------------------------------------------------------------------
(* Strings.                                                                *)

RECURSIVE Concat(_)
Concat(ss) == IF ss = <<>> THEN <<>> ELSE Head(ss) \o Concat(Tail(ss))

\* str::find(char): the 1-based index of the first occurrence, 0 for None.
RECURSIVE FindFrom(_, _, _)
FindFrom(s, c, i) ==
  IF i > Len(s) THEN 0
  ELSE IF s[i] = c THEN i
  ELSE FindFrom(s, c, i + 1)

Find(s, c) == FindFrom(s, c, 1)

\* &input[i..]
From(s, i) == SubSeq(s, i, Len(s))

-----------------------------------------------------------------------------
(* Pattern and Segment.                                                    *)

Literal(s)  == [kind |-> "Literal", text |-> s]
SegName     == [kind |-> "Name",  text |-> <<>>]
SegLocal    == [kind |-> "Local", text |-> <<>>]
SegHash     == [kind |-> "Hash",  text |-> <<>>]

TokName  == <<"[", "n", "a", "m", "e", "]">>
TokLocal == <<"[", "l", "o", "c", "a", "l", "]">>
TokHash  == <<"[", "h", "a", "s", "h", "]">>

ParseErr     == [kind |-> "Err"]
ParseOk(seg) == [kind |-> "Ok", segments |-> seg]

\* impl Default for Pattern
DefaultPattern == <<SegHash, Literal(<<"_">>), SegLocal>>

NoSegment == [kind |-> "None", text |-> <<>>]

\* A bug the match could have: any other bracketed token is taken for [hash].
MatchTokenLax(tok) ==
  IF tok = TokName THEN SegName
  ELSE IF tok = TokLocal THEN SegLocal
  ELSE SegHash

\* match &input[0..=end_idx] { ... }: the segment of a bracketed token, or
\* NoSegment for the arm `_ => return Err(())`.
MatchToken(tok) ==
  IF tok = TokName THEN SegName
  ELSE IF tok = TokLocal THEN SegLocal
  ELSE IF tok = TokHash THEN SegHash
  ELSE NoSegment

\* The while loop of Pattern::parse on what is left of the input.
RECURSIVE ParseLoop(_, _)
ParseLoop(input, segments) ==
  IF input = <<>> THEN ParseOk(segments)
  ELSE IF Head(input) = "["
  THEN LET end_idx == Find(input, "]") IN
       IF end_idx # 0
       THEN LET segment == MatchToken(SubSeq(input, 1, end_idx)) IN
            IF segment = NoSegment
            THEN ParseErr
            ELSE ParseLoop(From(input, end_idx + 1), Append(segments, segment))
       ELSE ParseErr
  ELSE LET f == Find(input, "[")
           end_idx == IF f = 0 THEN Len(input) ELSE f - 1 IN
       ParseLoop(From(input, end_idx + 1),
                 Append(segments, Literal(SubSeq(input, 1, end_idx))))

\* Pattern::parse
PatternParse(input) == ParseLoop(input, <<>>)

WriteOk(s)  == [kind |-> "Ok", out |-> s]
WritePanic  == [kind |-> "Panic"]

\* The for loop of Pattern::write; `out` is what the sink has received so far.
RECURSIVE WriteLoop(_, _, _, _)
WriteLoop(segments, h, local, out) ==
  IF segments = <<>> THEN WriteOk(out)
  ELSE LET segment == Head(segments) IN
       IF segment.kind = "Literal"
       THEN WriteLoop(Tail(segments), h, local, out \o segment.text)
       ELSE IF segment.kind = "Local"
       THEN WriteLoop(Tail(segments), h, local, out \o local)
       ELSE IF segment.kind = "Hash"
       THEN WriteLoop(Tail(segments), h, local, out \o h)
       ELSE WritePanic   \* _ => todo!()

\* Pattern::write with a sink that never fails
PatternWrite(segments, h, local) == WriteLoop(segments, h, local, <<>>)

\* Pattern::write_to_string
write_to_string(segments, h, local) == PatternWrite(segments, h, local)

-----------------------------------------------------------------------------
(* Pattern::parse and Pattern::write on bounded inputs.                    *)

Pieces ==
  { TokName, TokLocal, TokHash,
    <<"[", "H", "a", "s", "h", "]">>,     \* wrong case
    <<"[", "h", "a", "s", "h">>,          \* never closed
    <<"[">>, <<"]">>, <<"_">>, <<"a", "b">> }

PieceLists == UNION { [1..n -> Pieces] : n \in 0..MaxPieces }

Templates == { Concat(ps) : ps \in PieceLists }

HashArgs  == { <<"a", "b", "c", "1", "2", "3">>, <<"_", "7">> }
LocalArgs == { <<"f", "o", "o">>, <<>> }

IdlePat   == template = <<>> /\ parsed = NotRun /\ written = NotRun
IdleMod   == /\ config_pattern = <<>> /\ self_hash = <<>> /\ exports = <<>>
             /\ status = "idle" /\ calls = 0 /\ pre = <<>> /\ last = NotRun
             /\ referenced = {}
IdleHash  == DefaultHasher = <<>> /\ seed = NotRun /\ token = <<>> /\ tokens = <<>>
IdleSheet == sheet = NotRun /\ result = NotRun

InitPattern ==
  /\ template \in Templates
  /\ parsed = NotRun
  /\ written = NotRun
  /\ IdleMod /\ IdleHash /\ IdleSheet

Parse ==
  /\ parsed = NotRun
  /\ parsed' = PatternParse(template)
  /\ UNCHANGED <<template, written, modVars, hashVars, sheetVars>>

Write ==
  /\ parsed.kind = "Ok"
  /\ \E h \in HashArgs, local \in LocalArgs :
       written' = [hash |-> h, local |-> local,
                   res |-> PatternWrite(parsed.segments, h, local)]
  /\ UNCHANGED <<template, parsed, modVars, hashVars, sheetVars>>

NextPattern == Parse \/ Write

SpecPattern == InitPattern /\ [][NextPattern]_vars

-----------------------------------------------------------------------------
(* Claims about Pattern.                                                   *)

\* What one segment contributes to the compiled name.
SegmentOutput(segment, h, local) ==
  IF segment.kind = "Literal" THEN segment.text
  ELSE IF segment.kind = "Local" THEN local
  ELSE IF segment.kind = "Hash" THEN h
  ELSE <<>>

HasName(segments) == \E i \in 1..Len(segments) : segments[i].kind = "Name"

HashUnderscoreLocal == TokHash \o <<"_">> \o TokLocal

\* C3: for every template Pattern::parse accepts, [name] included, Pattern::write
\* completes, and what it emits is the segments' outputs concatenated in segment
\* order; "[hash]_[local]" with hash "abc123" and local "foo" gives "abc123_foo".
C3_WriteCompletes ==
  written # NotRun =>
    /\ written.res.kind = "Ok"
    /\ ~HasName(parsed.segments) =>
         written.res.out =
           Concat([i \in 1..Len(parsed.segments) |->
                     SegmentOutput(parsed.segments[i], written.hash, written.local)])
    /\ ( /\ template = HashUnderscoreLocal
         /\ written.hash = <<"a", "b", "c", "1", "2", "3">>
         /\ written.local = <<"f", "o", "o">> )
       => written.res.out = <<"a", "b", "c", "1", "2", "3", "_", "f", "o", "o">>

\* The bracketed token that begins at position i of t is not one of the three
\* known tokens, or is never closed.
BadTokenAt(t, i) ==
  LET rest == From(t, i)
      e    == Find(rest, "]") IN
  \/ e = 0
  \/ SubSeq(rest, 1, e) \notin {TokName, TokLocal, TokHash}

\* The template text a segment stands for.
SegmentSource(segment) ==
  IF segment.kind = "Literal" THEN segment.text
  ELSE IF segment.kind = "Name" THEN TokName
  ELSE IF segment.kind = "Local" THEN TokLocal
  ELSE TokHash

\* C9: Pattern::parse rejects the template exactly when some `[` begins a token
\* that is not [name], [local] or [hash] or that is never closed; otherwise the
\* segments are in template order, each run outside brackets is one verbatim
\* Literal, and the empty template gives no segment.
C9_ParseRejectsUnknownTokens ==
  parsed # NotRun =>
    /\ parsed.kind = "Err" <=>
         \E i \in 1..Len(template) : template[i] = "[" /\ BadTokenAt(template, i)
    /\ parsed.kind = "Ok" =>
         LET segs == parsed.segments IN
         /\ Concat([i \in 1..Len(segs) |-> SegmentSource(segs[i])]) = template
         /\ \A i \in 1..Len(segs) :
              /\ segs[i].kind \in {"Literal", "Name", "Local", "Hash"}
              /\ segs[i].kind = "Literal" =>
                   /\ segs[i].text # <<>>
                   /\ \A j \in 1..Len(segs[i].text) : segs[i].text[j] # "["
                   /\ i < Len(segs) => segs[i + 1].kind # "Literal"
         /\ template = <<>> => segs = <<>>

\* A template whose second token has the wrong case was rejected as a whole.
C9_Witness ==
  /\ parsed.kind = "Err"
  /\ template = TokLocal \o <<"[", "H", "a", "s", "h", "]">>

-----------------------------------------------------------------------------
(* CssModuleReference, CssModuleExport and CssModule.                      *)

\* enum CssModuleReference; equality is structural (derive(PartialEq)).
RefLocal(name)                 == [type |-> "local", name |-> name, specifier |-> <<>>]
RefGlobal(name)                == [type |-> "global", name |-> name, specifier |-> <<>>]
RefDependency(name, specifier) == [type |-> "dependency", name |-> name, specifier |-> specifier]

\* struct CssModuleExport
CssModuleExport(name, composes, is_referenced) ==
  [name |-> name, composes |-> composes, is_referenced |-> is_referenced]

\* HashMap::insert / entry().insert on the export table
Insert(exp, key, value) ==
  [k \in DOMAIN exp \cup {key} |-> IF k = key THEN value ELSE exp[k]]

\* What a call leaves behind: the table and how the call ended.
Outcome(exp, res) == [exports |-> exp, result |-> res]

\* A bug add_local could have: insert() in place of entry().or_insert_with().
add_local_overwrite(exp, exported, local) ==
  LET w == write_to_string(config_pattern, self_hash, local) IN
  IF w.kind = "Panic"
  THEN Outcome(exp, "Panic")
  ELSE Outcome(Insert(exp, exported, CssModuleExport(w.out, <<>>, FALSE)), "Ok")

\* CssModule::add_local. or_insert_with runs its closure, and so
\* write_to_string(..).unwrap(), only when the entry is vacant.
add_local(exp, exported, local) ==
  IF exported \in DOMAIN exp
  THEN Outcome(exp, "Ok")
  ELSE LET w == write_to_string(config_pattern, self_hash, local) IN
       IF w.kind = "Panic"
       THEN Outcome(exp, "Panic")
       ELSE Outcome(Insert(exp, exported, CssModuleExport(w.out, <<>>, FALSE)), "Ok")

\* A bug reference could have: a vacant entry is inserted the way add_local
\* inserts it, not yet referenced.
reference_unmarked(exp, name) ==
  IF name \in DOMAIN exp
  THEN Outcome([exp EXCEPT ![name].is_referenced = TRUE], "Ok")
  ELSE LET w == write_to_string(config_pattern, self_hash, name) IN
       IF w.kind = "Panic"
       THEN Outcome(exp, "Panic")
       ELSE Outcome(Insert(exp, name, CssModuleExport(w.out, <<>>, FALSE)), "Ok")

\* CssModule::reference
reference(exp, name) ==
  IF name \in DOMAIN exp
  THEN Outcome([exp EXCEPT ![name].is_referenced = TRUE], "Ok")
  ELSE LET w == write_to_string(config_pattern, self_hash, name) IN
       IF w.kind = "Panic"
       THEN Outcome(exp, "Panic")
       ELSE Outcome(Insert(exp, name, CssModuleExport(w.out, <<>>, TRUE)), "Ok")

\* Selectors and the composes declaration, as handle_composes reads them.
Class(name)  == [kind |-> "Class", name |-> name]
Id(name)     == [kind |-> "ID", name |-> name]
FromNone     == [kind |-> "None", file |-> <<>>]
FromGlobal   == [kind |-> "Global", file |-> <<>>]
FromFile(f)  == [kind |-> "File", file |-> f]
Composes(names, from) == [names |-> names, from |-> from]

\* sel.len() == 1 and its one component is Component::Class
IsSingleClass(sel) == Len(sel) = 1 /\ sel[1].kind = "Class"

\* let reference = match &composes.from { ... }: the reference, or Panic when
\* write_to_string(..).unwrap() panics.
BuildReference(from, name) ==
  IF from.kind = "None"
  THEN LET w == write_to_string(config_pattern, self_hash, name) IN
       IF w.kind = "Panic" THEN [kind |-> "Panic"]
       ELSE [kind |-> "Ok", ref |-> RefLocal(w.out)]
  ELSE IF from.kind = "Global"
  THEN [kind |-> "Ok", ref |-> RefGlobal(name)]
  ELSE [kind |-> "Ok", ref |-> RefDependency(name, from.file)]

Contains(list, x) == \E i \in 1..Len(list) : list[i] = x

\* A bug the push could have: no contains() check.
PushAlways(list, ref) == Append(list, ref)

\* if !export.composes.contains(&reference) { export.composes.push(reference) }
PushUnlessPresent(list, ref) ==
  IF Contains(list, ref) THEN list ELSE Append(list, ref)

\* for name in &composes.names { ... } for the class `id`
RECURSIVE NamesLoop(_, _, _, _)
NamesLoop(exp, id, names, from) ==
  IF names = <<>> THEN Outcome(exp, "Ok")
  ELSE LET r == BuildReference(from, Head(names)) IN
       IF r.kind = "Panic" THEN Outcome(exp, "Panic")
       ELSE IF id \notin DOMAIN exp THEN Outcome(exp, "Panic")  \* get_mut(..).unwrap()
       ELSE NamesLoop(
              [exp EXCEPT ![id].composes = PushUnlessPresent(@, r.ref)],
              id, Tail(names), from)

\* for sel in &selectors.0 { ... }
RECURSIVE SelectorsLoop(_, _, _)
SelectorsLoop(exp, selectors, composes) ==
  IF selectors = <<>> THEN Outcome(exp, "Ok")
  ELSE LET sel == Head(selectors) IN
       IF IsSingleClass(sel)
       THEN LET o == NamesLoop(exp, sel[1].name, composes.names, composes.from) IN
            IF o.result = "Panic" THEN o
            ELSE SelectorsLoop(o.exports, Tail(selectors), composes)
       ELSE Outcome(exp, "InvalidComposesSelector")

\* CssModule::handle_composes
handle_composes(exp, selectors, composes) == SelectorsLoop(exp, selectors, composes)

-----------------------------------------------------------------------------
(* One print pass driving a CssModule.                                     *)

ClassNames == { <<"a">>, <<"b">> }

SelectorShapes ==
  { <<Class(<<"a">>)>>, <<Class(<<"b">>)>>,
    <<Class(<<"a">>), Class(<<"b">>)>>,      \* the compound .a.b
    <<Id(<<"a">>)>> }                        \* #a

SelectorLists == UNION { [1..n -> SelectorShapes] : n \in 1..(MaxItems - 1) }

NameLists == UNION { [1..n -> ClassNames] : n \in 1..(MaxItems - 1) }

Froms == { FromNone, FromGlobal, FromFile(<<"f">>) }

\* The patterns a Config can hold: the default, and what Pattern::parse gives
\* for "[name]-[local]".
ModulePatterns ==
  { DefaultPattern,
    PatternParse(TokName \o <<"-">> \o TokLocal).segments }

Init ==
  /\ config_pattern \in ModulePatterns
  /\ self_hash = <<"h">>
  /\ exports = <<>>
  /\ status = "running"
  /\ calls = 0
  /\ pre = <<>>
  /\ last = NotRun
  /\ referenced = {}
  /\ IdlePat /\ IdleHash /\ IdleSheet

\* The bookkeeping every call shares.
Called(o, call) ==
  /\ calls < MaxCalls
  /\ calls' = calls + 1
  /\ pre' = exports
  /\ exports' = o.exports
  /\ status' = IF o.result = "Panic" THEN "panicked" ELSE "running"
  /\ last' = call
  /\ referenced' = IF call.kind = "reference" /\ o.result = "Ok"
                    THEN referenced \cup {call.name} ELSE referenced
  /\ UNCHANGED <<config_pattern, self_hash, patVars, hashVars, sheetVars>>

AddLocal ==
  /\ status = "running"
  /\ \E exported \in ClassNames, local \in ClassNames :
       LET o == add_local(exports, exported, local) IN
       Called(o, [kind |-> "add_local", exported |-> exported, local |-> local,
                  result |-> o.result])

Reference ==
  /\ status = "running"
  /\ \E name \in ClassNames :
       LET o == reference(exports, name) IN
       Called(o, [kind |-> "reference", name |-> name, result |-> o.result])

HandleComposes ==
  /\ status = "running"
  /\ \E selectors \in SelectorLists, names \in NameLists, from \in Froms :
       /\ Len(selectors) + Len(names) <= MaxItems
       /\ LET o == handle_composes(exports, selectors, Composes(names, from)) IN
          Called(o, [kind |-> "handle_composes",
                     invalid |-> \E i \in 1..Len(selectors) : ~IsSingleClass(selectors[i]),
                     result |-> o.result])

Next == AddLocal \/ Reference \/ HandleComposes

Spec == Init /\ [][Next]_vars

-----------------------------------------------------------------------------
(* Claims about CssModule.                                                 *)

Returned == status = "running"

\* The compiled name of `local`, for a pattern without a Name segment.
CompiledName(local) ==
  Concat([i \in 1..Len(config_pattern) |->
            SegmentOutput(config_pattern[i], self_hash, local)])

\* C1: handle_composes on a selector list that holds a selector which is not a
\* single class, at whatever position, returns InvalidComposesSelector and
\* leaves every export as it was before the call.
C1_InvalidSelectorMutatesNothing ==
  (last.kind = "handle_composes" /\ last.invalid /\ Returned) =>
    /\ last.result = "InvalidComposesSelector"
    /\ exports = pre

\* C2: once two classes are registered and one composes the other by its local
\* name (no `from`), the composed class's export has is_referenced = TRUE.
C2_ComposedLocalIsReferenced ==
  \A c \in DOMAIN exports, n \in DOMAIN exports :
    ( /\ c # n
      /\ ~HasName(config_pattern)
      /\ CompiledName(c) # CompiledName(n)
      /\ last.kind = "handle_composes" /\ last.result = "Ok"
      /\ ~Contains(pre[c].composes, RefLocal(CompiledName(n)))
      /\ Contains(exports[c].composes, RefLocal(CompiledName(n))) )
    => exports[n].is_referenced


\* C6: add_local on a name that already has an export (whoever created it, with
\* whatever local name) leaves the whole table as it was, and add_local again
\* with the same arguments changes nothing more.
C6_AddLocalFirstWins ==
  (last.kind = "add_local" /\ Returned) =>
    /\ last.exported \in DOMAIN pre => exports = pre
    /\ last.exported \in DOMAIN exports
    /\ Cardinality(DOMAIN exports) =
         Cardinality(DOMAIN pre) + (IF last.exported \in DOMAIN pre THEN 0 ELSE 1)
    /\ add_local(exports, last.exported, last.local) = Outcome(exports, "Ok")

\* add_local met an entry that reference() had created under another compiled
\* name than the one its own local name would give.
C6_Witness ==
  /\ last.kind = "add_local" /\ Returned
  /\ last.exported \in DOMAIN pre
  /\ ~HasName(config_pattern)
  /\ pre[last.exported].name # CompiledName(last.local)
  /\ pre[last.exported].is_referenced

\* C7: reference(name) on a table without `name` inserts one entry, compiled
\* from `name`, with no composes and is_referenced = TRUE; on a table with
\* `name` it only sets is_referenced; no other entry changes; and whatever is
\* called later, add_local included, a referenced name keeps its one entry
\* with is_referenced = TRUE.
C7_ReferenceMarksAndStays ==
  /\ (last.kind = "reference" /\ Returned) =>
       /\ DOMAIN exports = DOMAIN pre \cup {last.name}
       /\ \A k \in DOMAIN pre \ {last.name} : exports[k] = pre[k]
       /\ exports[last.name] =
            IF last.name \in DOMAIN pre
            THEN [pre[last.name] EXCEPT !.is_referenced = TRUE]
            ELSE CssModuleExport(CompiledName(last.name), <<>>, TRUE)
  /\ \A n \in referenced : n \in DOMAIN exports /\ exports[n].is_referenced

\* A name was referenced on the empty table and then declared by add_local.
C7_Witness ==
  /\ calls = 2
  /\ last.kind = "add_local" /\ Returned
  /\ last.exported \in referenced
  /\ last.local # last.exported

Count(list, x) == Cardinality({ i \in 1..Len(list) : list[i] = x })

\* The reference a composed name stands for, for a pattern without Name.
ExpectedReference(name, from) ==
  IF from.kind = "None" THEN RefLocal(CompiledName(name))
  ELSE IF from.kind = "Global" THEN RefGlobal(name)
  ELSE RefDependency(name, from.file)

\* C8: no composes list ever holds two equal references; a call only appends to
\* the lists it finds; and composing one (name, from) pair onto a class twice in
\* one call, whatever the list held before, leaves exactly one such reference.
C8_ComposesNoDuplicates ==
  /\ \A k \in DOMAIN exports :
       \A i, j \in 1..Len(exports[k].composes) :
         i # j => exports[k].composes[i] # exports[k].composes[j]
  /\ \A k \in DOMAIN pre :
       /\ k \in DOMAIN exports
       /\ Len(pre[k].composes) <= Len(exports[k].composes)
       /\ SubSeq(exports[k].composes, 1, Len(pre[k].composes)) = pre[k].composes
  /\ (Returned /\ ~HasName(config_pattern)) =>
       \A c \in DOMAIN exports, n \in ClassNames, f \in Froms :
         LET o == handle_composes(exports, << <<Class(c)>> >>, Composes(<<n, n>>, f)) IN
         /\ o.result = "Ok"
         /\ Count(o.exports[c].composes, ExpectedReference(n, f)) = 1

\* A composes declaration was handled again and found all its references there.
C8_Witness ==
  /\ last.kind = "handle_composes" /\ last.result = "Ok"
  /\ exports = pre
  /\ \E k \in DOMAIN exports : Len(exports[k].composes) >= 2

\* C11: handle_composes always returns, with Ok or InvalidComposesSelector,
\* whatever the selector list, the composes declaration and the export table,
\* a table with no entry for a selector's class included; it never aborts the
\* pass.  Stated for the patterns Pattern::write completes on, so that a call
\* that does not return here fails in handle_composes itself.
C11_HandleComposesAlwaysReturns ==
  (last.kind = "handle_composes" /\ ~HasName(config_pattern)) =>
    /\ Returned
    /\ last.result \in {"Ok", "InvalidComposesSelector"}

-----------------------------------------------------------------------------
(* hash() and ENCODER.                                                     *)

\* spec.symbols of ENCODER, symbol 0 first.
Symbols ==
  << "a", "b", "c", "d", "e", "f", "g", "h", "i", "j", "k", "l", "m",
     "n", "o", "p", "q", "r", "s", "t", "u", "v", "w", "x", "y", "z",
     "A", "B", "C", "D", "E", "F", "G", "H", "I", "J", "K", "L", "M",
     "N", "O", "P", "Q", "R", "S", "T", "U", "V", "W", "X", "Y", "Z",
     "1", "2", "3", "4", "5", "6", "7", "8", "9", "0", "_", "-" >>

Digits == { "0", "1", "2", "3", "4", "5", "6", "7", "8", "9" }

\* The 8 bits of a byte, most significant first.
ByteBits(b) == [i \in 1..8 |-> (b \div (2 ^ (8 - i))) % 2]

RECURSIVE BitsOf(_)
BitsOf(bytes) ==
  IF bytes = <<>> THEN <<>> ELSE ByteBits(Head(bytes)) \o BitsOf(Tail(bytes))

\* The value of up to six bits, most significant first, zero-filled on the right.
SixBits(bits) ==
  LET bit(i) == IF i <= Len(bits) THEN bits[i] ELSE 0 IN
  32 * bit(1) + 16 * bit(2) + 8 * bit(3) + 4 * bit(4) + 2 * bit(5) + bit(6)

RECURSIVE EncodeBits(_)
EncodeBits(bits) ==
  IF bits = <<>> THEN <<>>
  ELSE IF Len(bits) <= 6 THEN << Symbols[SixBits(bits) + 1] >>
  ELSE << Symbols[SixBits(SubSeq(bits, 1, 6)) + 1] >> \o EncodeBits(From(bits, 7))

\* ENCODER.encode: 64 symbols, six bits a symbol, most significant bit first, no
\* padding.
Encode(bytes) == EncodeBits(BitsOf(bytes))

\* hasher.finish() as u32, then to_le_bytes(): of the eight little-endian bytes
\* of the u64, the four low ones, lowest first.
U32LeBytes(h64) == SubSeq(h64, 1, 4)

\* A bug hash could have: the encoding is returned as it is.
hash_unprefixed(s) == Encode(U32LeBytes(DefaultHasher[s]))

\* hash()
hash(s) ==
  LET enc == Encode(U32LeBytes(DefaultHasher[s])) IN
  IF enc[1] \in Digits THEN <<"_">> \o enc ELSE enc

Seeds == { <<"a", ".", "c", "s", "s">>, <<>> }

\* finish() values the hasher may give, as eight little-endian bytes: the low
\* byte decides the first symbol (index 0, 51, 52, 61, 62, 63).
FinishValues ==
  { <<b0, b1, 0, 255, hi, hi, hi, hi>> :
      b0 \in {0, 207, 208, 247, 248, 255}, b1 \in {0, 200}, hi \in {0, 255} }

InitHash ==
  /\ DefaultHasher \in [Seeds -> FinishValues]
  /\ seed = NotRun
  /\ token = <<>>
  /\ tokens = <<>>
  /\ IdlePat /\ IdleMod /\ IdleSheet

Hash ==
  /\ Len(tokens) < MaxHashCalls
  /\ \E s \in Seeds :
       /\ seed' = s
       /\ token' = hash(s)
       /\ tokens' = Append(tokens, [seed |-> s, token |-> hash(s)])
  /\ UNCHANGED <<DefaultHasher, patVars, modVars, sheetVars>>

NextHash == Hash

SpecHash == InitHash /\ [][NextHash]_vars

\* The six symbols of four bytes, by arithmetic on the bytes.
SixSymbols(b) ==
  << Symbols[(b[1] \div 4) + 1],
     Symbols[((b[1] % 4) * 16 + b[2] \div 16) + 1],
     Symbols[((b[2] % 16) * 4 + b[3] \div 64) + 1],
     Symbols[(b[3] % 64) + 1],
     Symbols[(b[4] \div 4) + 1],
     Symbols[((b[4] % 4) * 16) + 1] >>

\* C10: a token never begins with a digit; it is the six-symbol encoding of the
\* low 32 bits of the 64-bit hash, with `_` put before it exactly when that
\* encoding begins with 0-9; and equal seeds have equal tokens.
C10_TokenNeverStartsWithDigit ==
  \A i \in 1..Len(tokens) :
    LET t   == tokens[i].token
        enc == SixSymbols(SubSeq(DefaultHasher[tokens[i].seed], 1, 4)) IN
    /\ t[1] \notin Digits
    /\ t = IF enc[1] \in Digits THEN <<"_">> \o enc ELSE enc
    /\ \A j \in 1..Len(tokens) :
         tokens[j].seed = tokens[i].seed => tokens[j].token = t

\* hash() has returned a prefixed token, and the same token again for the seed.
C10_Witness ==
  /\ Len(tokens) >= 2
  /\ tokens[1].seed = tokens[2].seed
  /\ Len(tokens[2].token) = 7
  /\ tokens[2].token[1] = "_"
  /\ tokens[2].token[2] \in Digits

-----------------------------------------------------------------------------
(* StyleSheet and StyleAttribute.  The rule tree is not modelled: whether  *)
(* the rules parse, minify and print is left open, and so is what a print  *)
(* pass puts in the export table.                                          *)

None    == [some |-> FALSE]
Some(v) == [some |-> TRUE, value |-> v]

Filenames == { <<"a">>, <<"b">> }
Urls      == { None, Some(<<"u">>) }

SourceLists == UNION { [1..n -> Filenames] : n \in 0..MaxSources }

\* The tables a print pass may have filled.
ExportTables ==
  { <<>>, [k \in {<<"a">>} |-> CssModuleExport(<<"h", "_", "a">>, <<>>, FALSE)] }

\* Ok(StyleSheet { .. }) at the end of StyleSheet::parse
ParsedSheet(filename, url, css_modules) ==
  [kind |-> "StyleSheet", sources |-> <<filename>>, source_map_urls |-> <<url>>,
   css_modules |-> css_modules, minified |-> FALSE]

\* StyleSheet::new
NewSheet(sources, css_modules) ==
  [kind |-> "StyleSheet", sources |-> sources, source_map_urls |-> <<>>,
   css_modules |-> css_modules, minified |-> FALSE]

\* Ok(StyleAttribute { .. }) at the end of StyleAttribute::parse
ParsedAttribute(filename) ==
  [kind |-> "StyleAttribute", sources |-> <<filename>>, minified |-> FALSE]

\* StyleSheet::source_map_url: self.source_map_urls.get(source_index)?.as_ref()
source_map_url(sh, source_index) ==
  IF source_index < Len(sh.source_map_urls)
  THEN sh.source_map_urls[source_index + 1]
  ELSE None

\* CssModule::new gives the printer one export table per source.
exports_by_source_index(sources) == [i \in 1..Len(sources) |-> <<>>]

\* printer.source_maps, filled when the print options ask for a source map:
\* for every source, the URL its map is read from.
source_maps(sh, source_map) ==
  IF source_map
  THEN [i \in 1..Len(sh.sources) |-> source_map_url(sh, i - 1)]
  ELSE <<>>

\* struct ToCssResult (code and dependencies left out), with the source maps
\* the printer worked from kept beside it.
ToCssResult(exp, refs, maps) ==
  [kind |-> "Ok", op |-> "to_css", exports |-> exp, references |-> refs,
   source_maps |-> maps]

\* A bug to_css could have: the result carries a table whatever the options.
SheetResultAlwaysSome(sh, table, maps) == ToCssResult(Some(table), Some(<<>>), maps)

\* The two Ok(ToCssResult { .. }) of StyleSheet::to_css
SheetResult(sh, table, maps) ==
  IF sh.css_modules
  THEN ToCssResult(Some(table), Some(<<>>), maps)
  ELSE ToCssResult(None, None, maps)

\* Ok(ToCssResult { .. }) of StyleAttribute::to_css
AttributeResult == ToCssResult(None, None, <<>>)

Failed(op)   == [kind |-> "Err", op |-> op]
Panicked(op) == [kind |-> "Panic", op |-> op]

InitSheet ==
  /\ sheet = NotRun
  /\ result = NotRun
  /\ IdlePat /\ IdleMod /\ IdleHash

Alive == result.kind # "Panic"

StyleSheetParse ==
  /\ Alive
  /\ \E filename \in Filenames, url \in Urls, css_modules \in BOOLEAN, ok \in BOOLEAN :
       IF ok
       THEN sheet' = ParsedSheet(filename, url, css_modules) /\ result' = NotRun
       ELSE sheet' = NotRun /\ result' = Failed("parse")
  /\ UNCHANGED <<patVars, modVars, hashVars>>

StyleSheetNew ==
  /\ Alive
  /\ \E sources \in SourceLists, css_modules \in BOOLEAN :
       sheet' = NewSheet(sources, css_modules)
  /\ result' = NotRun
  /\ UNCHANGED <<patVars, modVars, hashVars>>

\* StyleSheet::minify: the rules minify, or fail at a rule of source
\* `source_index`, whose file name is looked up with self.sources[..].
StyleSheetMinify ==
  /\ Alive
  /\ sheet.kind = "StyleSheet"
  /\ \E ok \in BOOLEAN, source_index \in 0..MaxSources :
       IF ok
       THEN sheet' = [sheet EXCEPT !.minified = TRUE]
            /\ result' = [kind |-> "Ok", op |-> "minify"]
       ELSE sheet' = [sheet EXCEPT !.minified = TRUE]
            /\ result' = IF source_index < Len(sheet.sources)
                         THEN Failed("minify")
                         ELSE Panicked("minify")
  /\ UNCHANGED <<patVars, modVars, hashVars>>

\* StyleSheet::to_css: `printed` is whether the rules print without error,
\* `table` what the pass left in the first source's export table.
StyleSheetToCss ==
  /\ Alive
  /\ sheet.kind = "StyleSheet"
  /\ \E source_map \in BOOLEAN, printed \in BOOLEAN, table \in ExportTables :
       result' =
         IF ~printed THEN Failed("to_css")
         ELSE IF sheet.css_modules /\ Len(exports_by_source_index(sheet.sources)) = 0
         THEN Panicked("to_css")
         ELSE SheetResult(sheet, IF sheet.css_modules THEN table ELSE <<>>,
                          source_maps(sheet, source_map))
  /\ UNCHANGED <<sheet, patVars, modVars, hashVars>>

StyleAttributeParse ==
  /\ Alive
  /\ \E filename \in Filenames, ok \in BOOLEAN :
       IF ok
       THEN sheet' = ParsedAttribute(filename) /\ result' = NotRun
       ELSE sheet' = NotRun /\ result' = Failed("parse")
  /\ UNCHANGED <<patVars, modVars, hashVars>>

StyleAttributeMinify ==
  /\ Alive
  /\ sheet.kind = "StyleAttribute"
  /\ sheet' = [sheet EXCEPT !.minified = TRUE]
  /\ result' = [kind |-> "Ok", op |-> "minify"]
  /\ UNCHANGED <<patVars, modVars, hashVars>>

\* StyleAttribute::to_css: assert!(options.source_map.is_none()) comes first.
StyleAttributeToCss ==
  /\ Alive
  /\ sheet.kind = "StyleAttribute"
  /\ \E source_map \in BOOLEAN, printed \in BOOLEAN :
       result' = IF source_map THEN Panicked("to_css")
                 ELSE IF ~printed THEN Failed("to_css")
                 ELSE AttributeResult
  /\ UNCHANGED <<sheet, patVars, modVars, hashVars>>

NextSheet ==
  \/ StyleSheetParse \/ StyleSheetNew \/ StyleSheetMinify \/ StyleSheetToCss
  \/ StyleAttributeParse \/ StyleAttributeMinify \/ StyleAttributeToCss

SpecSheet == InitSheet /\ [][NextSheet]_vars

\* C4: a print result carries exports and references exactly when it comes from
\* StyleSheet::to_css on a sheet with css_modules configured; without the
\* config, and for every StyleAttribute, both are None.
C4_ExportsOnlyWithModules ==
  (result.kind = "Ok" /\ result.op = "to_css") =>
    LET scoped == sheet.kind = "StyleSheet" /\ sheet.css_modules IN
    /\ result.exports.some <=> scoped
    /\ result.references.some <=> scoped
    /\ scoped => result.exports.value \in ExportTables

\* A minified sheet with the config was printed and its result carries the
\* table the pass filled.
C4_Witness ==
  /\ result.kind = "Ok" /\ result.op = "to_css"
  /\ sheet.kind = "StyleSheet" /\ sheet.css_modules /\ sheet.minified
  /\ result.exports.some /\ result.references.some
  /\ result.exports.value # <<>>

\* C5: in every StyleSheet, from parse or from new, minified and printed or not,
\* sources and source_map_urls have the same length.
C5_SourcesAndUrlsAligned ==
  sheet.kind = "StyleSheet" => Len(sheet.source_map_urls) = Len(sheet.sources)

=============================================================================
